---- MODULE Spec2Model ----
(***************************************************************************)
(* las-rasterizer: a point cloud is turned into a raster, either by        *)
(* binning (binning.rs) or by sampling a constrained Delaunay              *)
(* triangulation that is built highest point first (triangulation.rs).     *)
(* Coordinates, elevations and distances are integers here; every f64      *)
(* comparison of the source is the same comparison on those integers.      *)
(***************************************************************************)
EXTENDS Integers, Sequences, FiniteSets, TLC

\* ------------------------------------------------------------------ bounds
\* Longest point file triangulate reads.
MaxPoints == 5
\* Longest point file bin_points reads.
MaxBinPoints == 2
\* Largest number written in an --extent string.
MaxCoord == 1

\* ------------------------------------------------------- program constants
\* pub const NODATA: f64 = -9999.0
NODATA == -9999
\* f64::MIN, the start value of buffer_height: below every elevation.
F64_MIN == -1000000
\* f64::MAX, the upper z of a 4-value extent.
F64_MAX == 1000000

\* ------------------------------------------------------------- arithmetic
Min2(a, b) == IF a <= b THEN a ELSE b
Max2(a, b) == IF a >= b THEN a ELSE b
Abs(a) == IF a < 0 THEN -a ELSE a

RECURSIVE Gcd(_, _)
Gcd(a, b) == IF b = 0 THEN a ELSE Gcd(b, a % b)

\* An exact quotient n/d (d # 0), in lowest terms with a positive denominator.
Rat(n, d) ==
    LET g == Gcd(Abs(n), Abs(d))
        s == IF d < 0 THEN -1 ELSE 1
    IN  [num |-> (s * n) \div g, den |-> (s * d) \div g]

\* ceil(n / d) for d > 0, as f64::ceil of the quotient.
CeilDiv(n, d) == -((-n) \div d)

\* `x as usize` of a float: negative values saturate to 0.
AsUsize(n) == IF n < 0 THEN 0 ELSE n

\* ---------------------------------------------------------------- geometry
\* Twice the signed area of a, b, c: > 0 when c is left of a -> b.
Orient(a, b, c) == (b.x - a.x) * (c.y - a.y) - (b.y - a.y) * (c.x - a.x)

SamePos(a, b) == a.x = b.x /\ a.y = b.y

\* Squared planar distance, as computed for `dist`.
Dist2(a, b) == (a.x - b.x) * (a.x - b.x) + (a.y - b.y) * (a.y - b.y)

\* p lies on the open segment a-b.
OnSegment(a, b, p) ==
    /\ Orient(a, b, p) = 0
    /\ ~SamePos(a, p) /\ ~SamePos(b, p)
    /\ Min2(a.x, b.x) <= p.x /\ p.x <= Max2(a.x, b.x)
    /\ Min2(a.y, b.y) <= p.y /\ p.y <= Max2(a.y, b.y)

\* The open segments a-b and c-d cross in one interior point.
ProperCross(a, b, c, d) ==
    /\ Orient(a, b, c) * Orient(a, b, d) < 0
    /\ Orient(c, d, a) * Orient(c, d, b) < 0

\* p lies strictly inside the triangle a, b, c.
InTriangle(a, b, c, p) ==
    LET o1 == Orient(a, b, p)
        o2 == Orient(b, c, p)
        o3 == Orient(c, a, p)
    IN  \/ o1 > 0 /\ o2 > 0 /\ o3 > 0
        \/ o1 < 0 /\ o2 < 0 /\ o3 < 0

\* d lies strictly inside the circle through a, b, c (not collinear).
InCircle(a, b, c, d) ==
    LET ax == a.x - d.x
        ay == a.y - d.y
        bx == b.x - d.x
        by == b.y - d.y
        cx == c.x - d.x
        cy == c.y - d.y
        det == (ax * ax + ay * ay) * (bx * cy - cx * by)
             - (bx * bx + by * by) * (ax * cy - cx * ay)
             + (cx * cx + cy * cy) * (ax * by - bx * ay)
    IN  IF Orient(a, b, c) > 0 THEN det > 0 ELSE det < 0

\* ------------------------------------------- the triangulation (spade CDT)
\* A triangulation is [verts, edges]: verts is the arena of vertices
\* [x, y, z, value], edges the arena of undirected edges [from, to, c], c
\* being the constraint mark.  A vertex or edge handle is its index; a
\* directed edge handle is [e, r], r telling that it runs from `to` to `from`.
\* Faces are the empty triangles of the edge graph.
EmptyT == [verts |-> <<>>, edges |-> <<>>]

VIdx(t) == 1..Len(t.verts)
EIdx(t) == 1..Len(t.edges)
Ends(t, i) == {t.edges[i].from, t.edges[i].to}
Adjacent(t, u, v) == \E i \in EIdx(t) : Ends(t, i) = {u, v}
EdgeOf(t, u, v) == CHOOSE i \in EIdx(t) : Ends(t, i) = {u, v}

\* edge.from() of a directed edge handle.
HFrom(t, h) == IF h.r THEN t.edges[h.e].to ELSE t.edges[h.e].from
HTo(t, h) == IF h.r THEN t.edges[h.e].from ELSE t.edges[h.e].to

IsFace(t, u, v, w) ==
    /\ u # v /\ v # w /\ u # w
    /\ Adjacent(t, u, v) /\ Adjacent(t, v, w) /\ Adjacent(t, u, w)
    /\ Orient(t.verts[u], t.verts[v], t.verts[w]) # 0
    /\ \A x \in VIdx(t) \ {u, v, w} :
           ~InTriangle(t.verts[u], t.verts[v], t.verts[w], t.verts[x])

Faces(t) ==
    {f \in SUBSET VIdx(t) :
        /\ Cardinality(f) = 3
        /\ \E u, v, w \in f : u < v /\ v < w /\ IsFace(t, u, v, w)}

\* face.adjacent_edges(): the three edges bounding a face.
AdjacentEdges(t, f) == {i \in EIdx(t) : Ends(t, i) \subseteq f}

\* edge.is_constraint_edge()
IsConstraintEdge(t, i) == t.edges[i].c

PointInFace(t, f, p) ==
    \E u, v, w \in f :
        u < v /\ v < w /\ InTriangle(t.verts[u], t.verts[v], t.verts[w], p)

\* t.locate(position): PositionInTriangulation.
Locate(t, p) ==
    IF \E v \in VIdx(t) : SamePos(t.verts[v], p)
    THEN [kind |-> "OnVertex", f |-> {}, e |-> 0,
          v |-> CHOOSE v \in VIdx(t) : SamePos(t.verts[v], p)]
    ELSE IF Len(t.verts) < 2
    THEN [kind |-> "NoTriangulation", f |-> {}, e |-> 0, v |-> 0]
    ELSE IF \E i \in EIdx(t) :
                OnSegment(t.verts[t.edges[i].from], t.verts[t.edges[i].to], p)
    THEN [kind |-> "OnEdge", f |-> {}, v |-> 0,
          e |-> CHOOSE i \in EIdx(t) :
                    OnSegment(t.verts[t.edges[i].from], t.verts[t.edges[i].to], p)]
    ELSE IF \E f \in Faces(t) : PointInFace(t, f, p)
    THEN [kind |-> "OnFace", e |-> 0, v |-> 0,
          f |-> CHOOSE f \in Faces(t) : PointInFace(t, f, p)]
    ELSE [kind |-> "OutsideOfConvexHull", f |-> {}, e |-> 0, v |-> 0]

\* The vertices a new vertex at p is joined to: those the open segment from p
\* reaches without meeting another vertex or crossing an edge.
Visible(t, p, v) ==
    /\ \A w \in VIdx(t) \ {v} : ~OnSegment(p, t.verts[v], t.verts[w])
    /\ \A i \in EIdx(t) :
           ~ProperCross(p, t.verts[v],
                        t.verts[t.edges[i].from], t.verts[t.edges[i].to])

RECURSIVE SortedSeq(_)
SortedSeq(S) ==
    IF S = {} THEN <<>>
    ELSE LET m == CHOOSE x \in S : \A y \in S : x <= y
         IN  <<m>> \o SortedSeq(S \ {m})

\* The vertices w across edge i from the new vertex n that break the empty
\* circle of the face (edge i, n).
Apex(t, i, n) ==
    LET u == t.edges[i].from
        v == t.edges[i].to
    IN  {w \in VIdx(t) \ {n, u, v} :
            /\ IsFace(t, u, v, w)
            /\ Orient(t.verts[u], t.verts[v], t.verts[w])
                 * Orient(t.verts[u], t.verts[v], t.verts[n]) < 0
            /\ InCircle(t.verts[u], t.verts[v], t.verts[n], t.verts[w])}

Flippable(t, i, n) ==
    /\ ~t.edges[i].c
    /\ n \notin Ends(t, i)
    /\ IsFace(t, t.edges[i].from, t.edges[i].to, n)
    /\ Apex(t, i, n) # {}

\* Restores the Delaunay property around the new vertex n by flipping edges;
\* a constraint edge is never flipped.  A flipped edge keeps its handle; o is
\* the direction the handle gets.
RECURSIVE Legalize(_, _, _)
Legalize(t, n, o) ==
    LET bad == {i \in EIdx(t) : Flippable(t, i, n)}
    IN  IF bad = {} THEN t
        ELSE LET i == CHOOSE x \in bad : \A y \in bad : x <= y
                 w == CHOOSE x \in Apex(t, i, n) : TRUE
                 flipped == IF o THEN [from |-> n, to |-> w, c |-> FALSE]
                            ELSE [from |-> w, to |-> n, c |-> FALSE]
             IN  Legalize([t EXCEPT !.edges[i] = flipped], n, o)

\* The handle t.insert(point) returns.
InsertedVertex(t, pt) ==
    LET loc == Locate(t, pt)
    IN  IF loc.kind = "OnVertex" THEN loc.v ELSE Len(t.verts) + 1

\* t.insert(point): a point on an existing vertex overwrites its data; any
\* other point becomes a new vertex, joined to the vertices it sees (an edge
\* it lies on is split in two, one half keeping the handle), and the
\* unconstrained edges around it are legalized.
Insert(t, pt, o) ==
    LET loc == Locate(t, pt)
        n == Len(t.verts) + 1
        onEdge == loc.kind = "OnEdge"
        keep == IF ~onEdge THEN 0
                ELSE IF o THEN t.edges[loc.e].from ELSE t.edges[loc.e].to
        other == IF ~onEdge THEN 0
                 ELSE IF o THEN t.edges[loc.e].to ELSE t.edges[loc.e].from
        split == IF onEdge
                 THEN [t.edges EXCEPT ![loc.e] =
                           [from |-> keep, to |-> n, c |-> @.c]]
                 ELSE t.edges
        new == SortedSeq({v \in VIdx(t) : Visible(t, pt, v)} \ {keep})
        added == [k \in 1..Len(new) |->
                     [from |-> n, to |-> new[k],
                      c |-> onEdge /\ new[k] = other /\ t.edges[loc.e].c]]
    IN  IF loc.kind = "OnVertex"
        THEN [t EXCEPT !.verts[loc.v] = pt]
        ELSE Legalize([verts |-> Append(t.verts, pt),
                       edges |-> split \o added], n, o)

\* t.add_constraint(a, b) for the two ends of an existing edge.
AddConstraint(t, a, b) ==
    [t EXCEPT !.edges[EdgeOf(t, a, b)].c = TRUE]

\* t.vertex(v).out_edges(): the directed edges leaving v.
OutEdges(t, v) ==
    LET inc == SortedSeq({i \in EIdx(t) : v \in Ends(t, i)})
    IN  [k \in 1..Len(inc) |-> [e |-> inc[k], r |-> t.edges[inc[k]].to = v]]

\* Barycentric::interpolate(|v| v.data().value, p): the value on a vertex,
\* along an edge or inside a face; None outside the convex hull or without a
\* triangulation.
Interpolate(t, p) ==
    LET loc == Locate(t, p)
    IN  IF loc.kind = "OnVertex"
        THEN [some |-> TRUE, val |-> Rat(t.verts[loc.v].value, 1)]
        ELSE IF loc.kind = "OnEdge"
        THEN LET a == t.verts[t.edges[loc.e].from]
                 b == t.verts[t.edges[loc.e].to]
                 wa == (p.x - b.x) * (a.x - b.x) + (p.y - b.y) * (a.y - b.y)
                 wb == (p.x - a.x) * (b.x - a.x) + (p.y - a.y) * (b.y - a.y)
             IN  [some |-> TRUE,
                  val |-> Rat(wa * a.value + wb * b.value, Dist2(a, b))]
        ELSE IF loc.kind = "OnFace"
        THEN LET u == CHOOSE x \in loc.f : \A y \in loc.f : x <= y
                 w == CHOOSE x \in loc.f : \A y \in loc.f : x >= y
                 v == CHOOSE x \in loc.f : x # u /\ x # w
                 a == t.verts[u]
                 b == t.verts[v]
                 c == t.verts[w]
             IN  [some |-> TRUE,
                  val |-> Rat(Orient(b, c, p) * a.value
                                + Orient(c, a, p) * b.value
                                + Orient(a, b, p) * c.value,
                              Orient(a, b, c))]
        ELSE [some |-> FALSE, val |-> Rat(0, 1)]

\* ------------------------------------------------------------ the program
VARIABLES
    pc,                 \* where the run stands
    err,                \* the Error the run ended with, "" for none
    cli,                \* the parsed arguments the run has read
    nread,              \* points the reader has yielded
    points,             \* triangulate: Vec<Point>, sorted once read
    next,               \* index of the point try_for_each handles next
    buffer_height,      \* triangulate: the watermark
    t,                  \* triangulate: the triangulation
    constraint_buffer,  \* triangulate: VecDeque of directed edge handles, each
                        \* with the number of the insertion that appended it
    bins,               \* bin_points: Vec<Vec<f64>>, one list per cell
    data,               \* the Vec<f64> main hands to the raster band
    band,               \* what was written: [nodata, data]
    extent_in,          \* extent_parser: the argument, split at commas
    extent_out,         \* extent_parser: what the call came to
    \* history, read by the properties only
    allz,               \* elevations of all points read, noise included
    inserted,           \* the points insert_vert was called for, in order
    frz,                \* the last freeze check: buffer before, found, after
    located,            \* the last located point and what became of it
    promoted,           \* {ends, d2} of every add_constraint call
    binned              \* bin_points: [p, i] for every value pushed, [p] for a refusal

vars == <<pc, err, cli, nread, points, next, buffer_height, t,
          constraint_buffer, bins, data, band, extent_in, extent_out,
          allz, inserted, frz, located, promoted, binned>>

triVars == <<points, next, buffer_height, t, constraint_buffer,
             allz, inserted, frz, located, promoted>>
extVars == <<extent_in, extent_out>>

None == [some |-> FALSE]
Some(v) == [some |-> TRUE, val |-> v]
UnwrapOr(o, d) == IF o.some THEN o.val ELSE d

\* Classification::HighNoise as a LAS classification code.
HighNoise == 18

\* reader.header().bounds(): the bounds the point file declares.
HeaderBounds == [min |-> [x |-> 0, y |-> 0], max |-> [x |-> 2, y |-> 2]]

\* get_var(var, point)
get_var(var, point) ==
    CASE var = "X" -> point.x
      [] var = "Y" -> point.y
      [] var = "Z" -> point.z
      [] var = "Intensity" -> point.intensity

\* get_raster_size: (width, height) of the raster over bounds.
get_raster_size(bounds, res) ==
    [width |-> AsUsize(CeilDiv(bounds.max.x - bounds.min.x, res)),
     height |-> AsUsize(CeilDiv(bounds.max.y - bounds.min.y, res))]

\* ------------------------------------------------------------ triangulate
\* Point::new(x, y, z, value)
NewPoint(x, y, z, value) == [x |-> x, y |-> y, z |-> z, value |-> value]

\* buffer_height.max(point.z), for every point read.
ReadHeight(bh, z) == Max2(bh, z)

\* The sort with its comparison turned round: lowest first.
RECURSIVE SortByZ_ascending(_)
SortByZ_ascending(s) ==
    IF s = <<>> THEN <<>>
    ELSE LET init == SortByZ_ascending(SubSeq(s, 1, Len(s) - 1))
             p == s[Len(s)]
             k == Cardinality({j \in 1..Len(init) : init[j].z <= p.z})
         IN  SubSeq(init, 1, k) \o <<p>> \o SubSeq(init, k + 1, Len(init))

\* points.sort_by(|a, b| b.z.partial_cmp(&a.z)): stable, highest first.
RECURSIVE SortByZ(_)
SortByZ(s) ==
    IF s = <<>> THEN <<>>
    ELSE LET init == SortByZ(SubSeq(s, 1, Len(s) - 1))
             p == s[Len(s)]
             k == Cardinality({j \in 1..Len(init) : init[j].z >= p.z})
         IN  SubSeq(init, 1, k) \o <<p>> \o SubSeq(init, k + 1, Len(init))

\* The test of the scan: edge.from().data().z > buffer_height + insertion_buffer.
Qualifies(tr, h, bh, ib) == tr.verts[HFrom(tr, h)].z > bh + ib

\* The scan over constraint_buffer.iter().rev(): the position, counted from
\* the oldest entry, of the first entry found; 0 when none qualifies.
FirstFound(tr, buf, bh, ib) ==
    LET q == {k \in 1..Len(buf) : Qualifies(tr, buf[k], bh, ib)}
    IN  IF q = {} THEN 0 ELSE CHOOSE k \in q : \A j \in q : j <= k

\* How many entries drain(..=i) takes from the front, i being the index of
\* the found entry in the reversed enumeration.
DrainCount(buf, found) ==
    IF found = 0 THEN 0 ELSE (Len(buf) - found) + 1

\* The test with its comparison turned round: the long edges freeze.
Freezes_long(d2, fd) == d2 > fd * fd

\* The test before add_constraint: dist < freeze_distance_2.
Freezes(d2, fd) == d2 < fd * fd

\* The body of the drain's for_each, over the handles drained.
RECURSIVE FreezeEdges(_, _, _)
FreezeEdges(tr, hs, fd) ==
    IF hs = <<>> THEN tr
    ELSE LET a == HFrom(tr, hs[1])
             b == HTo(tr, hs[1])
             nt == IF Freezes(Dist2(tr.verts[a], tr.verts[b]), fd)
                   THEN AddConstraint(tr, a, b) ELSE tr
         IN  FreezeEdges(nt, Tail(hs), fd)

\* The add_constraint calls of one drain, for the history.
Promotions(tr, hs, fd) ==
    {[ends |-> {HFrom(tr, hs[k]), HTo(tr, hs[k])},
      d2 |-> Dist2(tr.verts[HFrom(tr, hs[k])], tr.verts[HTo(tr, hs[k])])] :
        k \in {j \in 1..Len(hs) :
                  Freezes(Dist2(tr.verts[HFrom(tr, hs[j])],
                                tr.verts[HTo(tr, hs[j])]), fd)}}

\* The match with || for && in the OnFace arm: one constraint edge is
\* enough to skip the point.
ShouldInsert_anyFrozen(tr, point, bh) ==
    LET l == Locate(tr, point)
    IN  CASE l.kind = "OnFace" ->
               ~(\E i \in AdjacentEdges(tr, l.f) : IsConstraintEdge(tr, i))
          [] l.kind = "OnVertex" -> point.z - tr.verts[l.v].z > bh
          [] l.kind = "OnEdge" -> ~IsConstraintEdge(tr, l.e)
          [] OTHER -> TRUE

\* The match on t.locate(point.position): is insert_vert called?
ShouldInsert(tr, point, bh) ==
    LET l == Locate(tr, point)
    IN  CASE l.kind = "OnFace" ->
               ~(\A i \in AdjacentEdges(tr, l.f) : IsConstraintEdge(tr, i))
          [] l.kind = "OnVertex" -> point.z - tr.verts[l.v].z > bh
          [] l.kind = "OnEdge" -> ~IsConstraintEdge(tr, l.e)
          [] OTHER -> TRUE

\* The update with max for min.
InsertHeight_max(bh, z) == Max2(bh, z)

\* *buffer_height = buffer_height.min(point.z)
InsertHeight(bh, z) == Min2(bh, z)

\* The new handles put at the front of the deque.
Extend_front(buf, hs) == hs \o buf

\* constraint_buffer.extend(out_edges)
Extend(buf, hs) == buf \o hs

\* The handles of one insertion, numbered for the history.
Stamp(hs, n) ==
    [k \in 1..Len(hs) |-> [e |-> hs[k].e, r |-> hs[k].r, born |-> n]]

\* A point record of the reader.
LasPoint(x, y, z, c) ==
    [x |-> x, y |-> y, z |-> z, intensity |-> 5, classification |-> c]

\* The points a file for triangulate is made of: the corners (0,0), (2,1),
\* (1,2) of a triangle, (1,1) inside it, (2,2) beyond its edge (2,1)-(1,2)
\* and in line with (0,0) and (1,1), at elevations above and below 0, and a
\* noise point.
TriPoints ==
    {LasPoint(0, 0, 1, 2), LasPoint(0, 0, 0, 2),
     LasPoint(2, 1, 1, 2), LasPoint(2, 1, -1, 2),
     LasPoint(1, 2, -1, 2),
     LasPoint(1, 1, -1, 2),
     LasPoint(2, 2, 1, 2),
     LasPoint(0, 0, 1, HighNoise)}

NoFreeze == [before |-> <<>>, found |-> 0, after |-> <<>>, sweep |-> 0]
NoLocate == [n |-> 0, kind |-> "", allc |-> FALSE, vz |-> 0, z |-> 0,
             bh |-> 0, ins |-> FALSE]

InitState ==
    /\ err = ""
    /\ nread = 0
    /\ points = <<>>
    /\ next = 1
    /\ buffer_height = F64_MIN
    /\ t = EmptyT
    /\ constraint_buffer = <<>>
    /\ bins = <<>>
    /\ data = <<>>
    /\ band = None
    /\ allz = {}
    /\ inserted = <<>>
    /\ frz = NoFreeze
    /\ located = NoLocate
    /\ promoted = {}
    /\ binned = {}

InitCommon ==
    /\ InitState
    /\ extent_in = <<>>
    /\ extent_out = None

InitTri ==
    /\ InitCommon
    /\ pc = "read"
    /\ \E fd \in {2, 3} :
           cli = [command |-> "triangulate", freeze_distance |-> fd,
                  insertion_buffer |-> 1, var |-> "Z",
                  extent |-> None, res |-> 1]

\* One pass of `for p in reader.points()` in triangulate.
TriReadPoint ==
    /\ pc = "read" /\ cli.command = "triangulate"
    /\ nread < MaxPoints
    /\ \E point \in TriPoints :
        /\ buffer_height' = ReadHeight(buffer_height, point.z)
        /\ points' = IF point.classification = HighNoise THEN points
                     ELSE Append(points,
                                 NewPoint(point.x, point.y, point.z,
                                          get_var(cli.var, point)))
        /\ allz' = allz \cup {point.z}
    /\ nread' = nread + 1
    /\ UNCHANGED <<pc, err, cli, next, t, constraint_buffer, bins, data, band,
                   inserted, frz, located, promoted, binned>>
    /\ UNCHANGED extVars

\* `let point = p?` on a point the reader cannot decode.
TriReadError ==
    /\ pc = "read" /\ cli.command = "triangulate"
    /\ nread < MaxPoints
    /\ pc' = "done"
    /\ err' = "Las"
    /\ UNCHANGED <<cli, nread, bins, data, band, binned>>
    /\ UNCHANGED triVars
    /\ UNCHANGED extVars

\* The reader is exhausted: sort, then start the insertion pass.
TriSort ==
    /\ pc = "read" /\ cli.command = "triangulate"
    /\ points' = SortByZ(points)
    /\ pc' = IF points = <<>> THEN "sample" ELSE "freeze"
    /\ UNCHANGED <<err, cli, nread, next, buffer_height, t, constraint_buffer,
                   bins, data, band, allz, inserted, frz, located,
                   promoted, binned>>
    /\ UNCHANGED extVars

\* The closure of try_for_each, first half: the scan of constraint_buffer.
FreezeCheck ==
    /\ pc = "freeze"
    /\ LET found == FirstFound(t, constraint_buffer, buffer_height,
                               cli.insertion_buffer)
           n == DrainCount(constraint_buffer, found)
           drained == SubSeq(constraint_buffer, 1, n)
           rest == SubSeq(constraint_buffer, n + 1, Len(constraint_buffer))
       IN  /\ t' = FreezeEdges(t, drained, cli.freeze_distance)
           /\ promoted' = promoted
                            \cup Promotions(t, drained, cli.freeze_distance)
           /\ constraint_buffer' = rest
           /\ frz' = [before |-> constraint_buffer, found |-> found,
                      after |-> rest,
                      sweep |-> IF n > 0 THEN Len(inserted) ELSE frz.sweep]
    /\ pc' = "locate"
    /\ UNCHANGED <<err, cli, nread, points, next, buffer_height, bins, data,
                   band, allz, inserted, located, binned>>
    /\ UNCHANGED extVars

\* The closure of try_for_each, second half: locate, and insert_vert or not.
LocateInsert ==
    /\ pc = "locate"
    /\ LET point == points[next]
           l == Locate(t, point)
           ins == ShouldInsert(t, point, buffer_height)
       IN  /\ located' =
                 [n |-> next, kind |-> l.kind,
                  allc |-> CASE l.kind = "OnFace" ->
                                  \A i \in AdjacentEdges(t, l.f) : t.edges[i].c
                             [] l.kind = "OnEdge" -> t.edges[l.e].c
                             [] OTHER -> FALSE,
                  vz |-> IF l.kind = "OnVertex" THEN t.verts[l.v].z ELSE 0,
                  z |-> point.z, bh |-> buffer_height, ins |-> ins]
           /\ IF ins
              THEN \E o \in BOOLEAN :
                     /\ buffer_height' = InsertHeight(buffer_height, point.z)
                     /\ t' = Insert(t, point, o)
                     /\ constraint_buffer' =
                            Extend(constraint_buffer,
                                   Stamp(OutEdges(t', InsertedVertex(t, point)),
                                         Len(inserted) + 1))
                     /\ inserted' = Append(inserted, point)
              ELSE UNCHANGED <<buffer_height, t, constraint_buffer, inserted>>
    /\ next' = next + 1
    /\ pc' = IF next = Len(points) THEN "sample" ELSE "freeze"
    /\ UNCHANGED <<err, cli, nread, points, bins, data, band, allz, frz,
                   promoted, binned>>
    /\ UNCHANGED extVars

\* The --extent values a run is given, besides none.
Extents == {None, Some([min |-> [x |-> 1, y |-> 1],
                        max |-> [x |-> 3, y |-> 2]])}

\* The sampling loops of triangulate, over the bounds main passes: the
\* extent and the resolution are read here for the first time.  The corner
\* is an integer, so bounds.min.x.round() is the corner itself.
SampleAt(tr, x, y) ==
    LET r == Interpolate(tr, [x |-> x, y |-> y])
    IN  IF r.some THEN r.val ELSE Rat(NODATA, 1)

Samples(tr, bounds, res) ==
    LET size == get_raster_size(bounds, res)
    IN  [k \in 1..(size.width * size.height) |->
            SampleAt(tr,
                     bounds.min.x + res * ((k - 1) % size.width),
                     bounds.min.y + res * ((k - 1) \div size.width))]

Sample ==
    /\ pc = "sample"
    /\ \E extent \in Extents, res \in {1, 2} :
        /\ cli' = [cli EXCEPT !.extent = extent, !.res = res]
        /\ data' = Samples(t, UnwrapOr(extent, HeaderBounds), res)
    /\ pc' = "driver"
    /\ UNCHANGED <<err, nread, bins, band, binned>>
    /\ UNCHANGED triVars
    /\ UNCHANGED extVars

NextTri ==
    \/ TriReadPoint
    \/ TriReadError
    \/ TriSort
    \/ FreezeCheck
    \/ LocateInsert
    \/ Sample

\* triangulate, from its first line to the Vec<f64> it returns.
SpecTri == InitTri /\ [][NextTri]_vars

\* ------------------------------------------------------------------- bin
Functions == {"Mean", "Median", "Min", "Max", "Count"}

RECURSIVE SumSeq(_)
SumSeq(s) == IF s = <<>> THEN 0 ELSE s[1] + SumSeq(Tail(s))

\* points.sort_by(|a, b| a.partial_cmp(b)): ascending.
RECURSIVE SortAsc(_)
SortAsc(s) ==
    IF s = <<>> THEN <<>>
    ELSE LET init == SortAsc(SubSeq(s, 1, Len(s) - 1))
             p == s[Len(s)]
             k == Cardinality({j \in 1..Len(init) : init[j] <= p})
         IN  SubSeq(init, 1, k) \o <<p>> \o SubSeq(init, k + 1, Len(init))

RECURSIVE FoldMin(_, _)
FoldMin(acc, s) == IF s = <<>> THEN acc ELSE FoldMin(Min2(acc, s[1]), Tail(s))
RECURSIVE FoldMax(_, _)
FoldMax(acc, s) == IF s = <<>> THEN acc ELSE FoldMax(Max2(acc, s[1]), Tail(s))

\* collapse_cell(points, function)
collapse_cell(cell, function) ==
    LET len == Len(cell)
        sorted == SortAsc(cell)
    IN  IF len = 0 THEN Rat(NODATA, 1)
        ELSE CASE function = "Mean" -> Rat(SumSeq(cell), len)
               [] function = "Median" ->
                    IF len = 1 THEN Rat(cell[1], 1)
                    ELSE IF len % 2 = 0
                    THEN Rat(sorted[len \div 2] + sorted[len \div 2 + 1], 2)
                    ELSE Rat(sorted[len \div 2 + 1], 1)
               [] function = "Min" -> Rat(FoldMin(F64_MAX, cell), 1)
               [] function = "Max" -> Rat(FoldMax(F64_MIN, cell), 1)
               [] function = "Count" -> Rat(len, 1)

\* The column and row bin_points computes for a point:
\* ((point.x - bounds.min.x) / res).floor() as usize.
x_idx(point, bounds, res) == AsUsize((point.x - bounds.min.x) \div res)
y_idx(point, bounds, res) == AsUsize((point.y - bounds.min.y) \div res)

\* let i = y_idx * width + x_idx
CellIndex(point, bounds, res, width) ==
    y_idx(point, bounds, res) * width + x_idx(point, bounds, res)

\* The class filter: is the point skipped?
Filtered(class, point) == class.some /\ point.classification # class.val

\* The points a file for bin is made of.
BinPoints ==
    {[x |-> x, y |-> y, z |-> z, intensity |-> 5, classification |-> c] :
        x \in {-1, 0, 1, 2}, y \in {-1, 0, 2}, z \in {1, 3}, c \in {2}}
    \cup {[x |-> 0, y |-> 0, z |-> 3, intensity |-> 5, classification |-> 5]}

InitBin ==
    /\ InitCommon
    /\ pc = "alloc"
    /\ \E res \in {1, 2}, class \in {None, Some(2)}, extent \in Extents :
           cli = [command |-> "bin", res |-> res, class |-> class,
                  extent |-> extent, var |-> "Z"]

\* The head of bin_points: the size of the raster and the empty bins.
\* get_raster_size is handed the reader, so the size is that of the header's
\* bounds; --extent moves only the corner the indices are counted from.
BinAlloc ==
    /\ pc = "alloc"
    /\ LET size == get_raster_size(HeaderBounds, cli.res)
       IN  bins' = [i \in 1..(size.width * size.height) |-> <<>>]
    /\ pc' = "read"
    /\ UNCHANGED <<err, cli, nread, data, band, binned>>
    /\ UNCHANGED triVars
    /\ UNCHANGED extVars

\* One pass of `for point in reader.points()` in bin_points.
BinReadPoint ==
    /\ pc = "read" /\ cli.command = "bin"
    /\ nread < MaxBinPoints
    /\ nread' = nread + 1
    /\ \E point \in BinPoints :
        LET bounds == UnwrapOr(cli.extent, HeaderBounds)
            width == get_raster_size(HeaderBounds, cli.res).width
            i == CellIndex(point, bounds, cli.res, width)
        IN  IF Filtered(cli.class, point)
            THEN UNCHANGED <<pc, err, bins, binned>>
            ELSE IF i >= Len(bins)
            THEN /\ pc' = "done"
                 /\ err' = "ShouldntHappen"
                 /\ binned' = binned \cup {[p |-> point, i |-> -1]}
                 /\ UNCHANGED bins
            ELSE /\ bins' = [bins EXCEPT ![i + 1] =
                                 Append(@, get_var(cli.var, point))]
                 /\ binned' = binned \cup {[p |-> point, i |-> i]}
                 /\ UNCHANGED <<pc, err>>
    /\ UNCHANGED <<cli, data, band>>
    /\ UNCHANGED triVars
    /\ UNCHANGED extVars

\* `let point = point?` on a point the reader cannot decode.
BinReadError ==
    /\ pc = "read" /\ cli.command = "bin"
    /\ nread < MaxBinPoints
    /\ pc' = "done"
    /\ err' = "Las"
    /\ UNCHANGED <<cli, nread, bins, data, band, binned>>
    /\ UNCHANGED triVars
    /\ UNCHANGED extVars

\* The reader is exhausted: every cell is collapsed; --func is read here.
BinCollapse ==
    /\ pc = "read" /\ cli.command = "bin"
    /\ \E func \in Functions :
           data' = [i \in 1..Len(bins) |-> collapse_cell(bins[i], func)]
    /\ pc' = "driver"
    /\ UNCHANGED <<err, cli, nread, bins, band, binned>>
    /\ UNCHANGED triVars
    /\ UNCHANGED extVars

\* ------------------------------------------------------------------ main
\* driver_map.get(extension).ok_or(NoDriverForExtension), after `data` is
\* there: the drivers and the output path are read here for the first time.
FindDriver ==
    /\ pc = "driver"
    /\ \E found \in BOOLEAN :
           IF found
           THEN pc' = "write" /\ err' = err
           ELSE pc' = "done" /\ err' = "NoDriverForExtension"
    /\ UNCHANGED <<cli, nread, bins, data, band, binned>>
    /\ UNCHANGED triVars
    /\ UNCHANGED extVars

\* The --nodata values a run is given, besides none.
NodataArgs == {None, Some(0)}

\* The tail of main: the band gets its no-data value and the data.  A Vec
\* that does not fill width x height is refused by the raster library.
WriteBand ==
    /\ pc = "write"
    /\ LET size == get_raster_size(UnwrapOr(cli.extent, HeaderBounds), cli.res)
       IN  IF size.width * size.height # Len(data)
           THEN err' = "Gdal" /\ band' = band
           ELSE /\ err' = err
                /\ \E nodata \in NodataArgs :
                       band' = Some([nodata |-> UnwrapOr(nodata, NODATA),
                                     data |-> data])
    /\ pc' = "done"
    /\ UNCHANGED <<cli, nread, bins, data, binned>>
    /\ UNCHANGED triVars
    /\ UNCHANGED extVars

NextBin ==
    \/ BinAlloc
    \/ BinReadPoint
    \/ BinReadError
    \/ BinCollapse
    \/ FindDriver
    \/ WriteBand

\* main with the bin command, from bin_points to the written band.
SpecBin == InitBin /\ [][NextBin]_vars

\* ---------------------------------------------------------- extent_parser
\* A piece of the argument between commas: a number, or text that
\* str::parse::<f64> refuses.
Tokens == {[ok |-> TRUE, val |-> n] : n \in 0..MaxCoord}
            \cup {[ok |-> FALSE, val |-> 0]}

ExtErr == [kind |-> "Err"]
ExtPanic == [kind |-> "Panic"]
ExtOk(min, max) ==
    [kind |-> "Ok",
     bounds |-> [min |-> [x |-> min[1], y |-> min[2], z |-> min[3]],
                 max |-> [x |-> max[1], y |-> max[2], z |-> max[3]]]]

\* check_min_max(min, max)
check_min_max(min, max) == \A i \in 1..3 : ~(min[i] > max[i])

\* extent_parser(s), s split at commas; split[k] of the source is
\* split[k + 1] here, and an index past the end panics.
extent_parser(split) ==
    LET n == Len(split)
        use_z == n = 6
        bad(k) == ~split[k + 1].ok
        num(k) == split[k + 1].val
        min_z == IF use_z THEN num(2) ELSE F64_MIN
        max_x == IF use_z THEN num(2) ELSE num(3)
        max_y == IF use_z THEN num(3) ELSE num(4)
        max_z == IF use_z THEN num(5) ELSE F64_MAX
        min == <<num(0), num(1), min_z>>
        max == <<max_x, max_y, max_z>>
    IN  IF ~(n = 6 \/ n = 4) THEN ExtErr
        ELSE IF bad(0) \/ bad(1) THEN ExtErr
        ELSE IF use_z /\ bad(2) THEN ExtErr
        ELSE IF IF use_z THEN bad(2) ELSE bad(3) THEN ExtErr
        ELSE IF ~use_z THEN ExtPanic
        ELSE IF bad(3) THEN ExtErr
        ELSE IF bad(5) THEN ExtErr
        ELSE IF ~check_min_max(min, max) THEN ExtErr
        ELSE ExtOk(min, max)

InitExt ==
    /\ InitState
    /\ pc = "parse"
    /\ cli = [command |-> ""]
    /\ extent_out = None
    /\ \E n \in 3..7 : extent_in \in [1..n -> Tokens]

\* clap hands the --extent argument to extent_parser.
ParseExtent ==
    /\ pc = "parse"
    /\ extent_out' = Some(extent_parser(extent_in))
    /\ pc' = "done"
    /\ UNCHANGED <<err, cli, nread, bins, data, band, binned, extent_in>>
    /\ UNCHANGED triVars

NextExt == ParseExtent

\* extent_parser on every argument of three to seven pieces.
SpecExt == InitExt /\ [][NextExt]_vars

\* ------------------------------------------------------------- properties
SetMax(S) == CHOOSE x \in S : \A y \in S : y <= x
MinZ(ps) == CHOOSE z \in {ps[k].z : k \in 1..Len(ps)} :
                \A k \in 1..Len(ps) : z <= ps[k].z
Building == pc \in {"freeze", "locate", "sample", "driver"}

\* C1: every edge promoted to a constraint was no longer than
\* freeze_distance when add_constraint was called for it, and is still an
\* edge between the same two vertices, and still a constraint, in every
\* later state of the build.
C1_ConstraintsShortAndKept ==
    \A pr \in promoted :
        /\ cli.freeze_distance >= 0
        /\ pr.d2 <= cli.freeze_distance * cli.freeze_distance
        /\ \E i \in EIdx(t) : Ends(t, i) = pr.ends /\ IsConstraintEdge(t, i)

\* C1 happens: a point was inserted after edges had been promoted and not
\* every drained edge was short enough.
C1_Witness ==
    /\ promoted # {}
    /\ located.ins /\ located.n = next - 1
    /\ \E i \in EIdx(t) : ~IsConstraintEdge(t, i)

\* C6 as claimed: a freeze check that finds a qualifying entry, scanning
\* from the newest, leaves exactly the entries newer than it; one that finds
\* none leaves the buffer as it was.
C6_EvictsThroughFound ==
    frz.after = IF frz.found = 0 THEN frz.before
                ELSE SubSeq(frz.before, frz.found + 1, Len(frz.before))

\* C7: the point located last was inserted exactly when it had no containing
\* face, lay in a face not bounded by three constraints, lay on an edge that
\* is no constraint, or lay on a vertex it is higher than by more than the
\* watermark.
C7_InsertPolicy ==
    located.n > 0 =>
        (Len(inserted) > 0 /\ located.ins /\ inserted[Len(inserted)].z = located.z
             /\ located.n = next - 1
         <=>
         \/ located.kind \in {"NoTriangulation", "OutsideOfConvexHull"}
         \/ located.kind = "OnFace" /\ ~located.allc
         \/ located.kind = "OnEdge" /\ ~located.allc
         \/ located.kind = "OnVertex"
              /\ located.z - located.vz > located.bh)

\* C7 happens: a point inside a face whose three edges are constraints was
\* skipped.
C7_Witness ==
    located.n > 0 /\ located.kind = "OnFace" /\ located.allc /\ ~located.ins

\* C8: through the insertion pass the watermark is the highest elevation
\* read (noise included) until the first insertion, the lowest inserted
\* elevation after it, never above its value before the last point, and
\* unchanged by a skipped point.
C8_Watermark ==
    Building =>
        /\ (inserted = <<>> /\ allz # {}) => buffer_height = SetMax(allz)
        /\ inserted # <<>> => buffer_height = MinZ(inserted)
        /\ located.n > 0 => buffer_height <= located.bh
        /\ (located.n > 0 /\ ~located.ins) => buffer_height = located.bh

\* C8 happens: a noise point was the highest point read, a point was
\* inserted and a later one was skipped.
C8_Witness ==
    /\ Building
    /\ inserted # <<>>
    /\ \A k \in 1..Len(points) : points[k].z < SetMax(allz)
    /\ located.n > 1 /\ ~located.ins

\* C9 as claimed: every entry of the buffer was appended after the last
\* freeze check that evicted entries.
C9_AllNewerThanSweep ==
    \A k \in 1..Len(constraint_buffer) : constraint_buffer[k].born > frz.sweep

\* C9, amended: every entry of the buffer names an edge of the
\* triangulation, the entries lie oldest first in the order of the
\* insertions that appended them, and a freeze check leaves the newest part
\* of the buffer in its order.
C9_LiveAndOldestFirst ==
    /\ \A k \in 1..Len(constraint_buffer) :
           /\ constraint_buffer[k].e \in EIdx(t)
           /\ constraint_buffer[k].born \in 1..Len(inserted)
           /\ k > 1 => constraint_buffer[k - 1].born <= constraint_buffer[k].born
    /\ frz.after = SubSeq(frz.before, Len(frz.before) - Len(frz.after) + 1,
                          Len(frz.before))

\* C9 happens: a freeze check evicted entries, and entries appended before
\* it are still in the buffer.
C9_Witness ==
    /\ pc = "locate"
    /\ frz.found > 0
    /\ \E k \in 1..Len(constraint_buffer) :
           constraint_buffer[k].born <= frz.sweep

\* C10: when no point kept has a negative elevation, a point located on a
\* vertex is never inserted, and every vertex holds the first of the sorted
\* points at its position.
C10_CoincidentNeverInserted ==
    (Building /\ \A k \in 1..Len(points) : points[k].z >= 0) =>
        /\ (located.n > 0 /\ located.kind = "OnVertex") => ~located.ins
        /\ \A v \in VIdx(t) :
               LET at == {k \in 1..(next - 1) : SamePos(points[k], t.verts[v])}
               IN  t.verts[v] = points[CHOOSE k \in at : \A j \in at : k <= j]

\* C10 happens: with no negative elevation, a point lower than the vertex it
\* lies on was located and skipped.
C10_Witness ==
    /\ Building /\ \A k \in 1..Len(points) : points[k].z >= 0
    /\ located.n > 0 /\ located.kind = "OnVertex"
    /\ located.z < located.vz

\* With a negative elevation the branch is taken: a point on a vertex was
\* inserted.
C10_NegativeInserted ==
    located.n > 0 /\ located.kind = "OnVertex" /\ located.ins

\* C2 as claimed: in the written band every cell without a value holds the
\* band's no-data value.
C2_EmptyCellsHoldBandNodata ==
    band.some =>
        \A i \in 1..Len(bins) :
            bins[i] = <<>> => band.val.data[i] = Rat(band.val.nodata, 1)

\* C3 as claimed: a point that passes the class filter and lies outside the
\* raster is pushed to no cell; bin_points fails with ShouldntHappen.
OutsideRaster(point) ==
    LET bounds == UnwrapOr(cli.extent, HeaderBounds)
        size == get_raster_size(HeaderBounds, cli.res)
    IN  \/ point.x < bounds.min.x
        \/ point.y < bounds.min.y
        \/ (point.x - bounds.min.x) \div cli.res >= size.width
        \/ (point.y - bounds.min.y) \div cli.res >= size.height

C3_OutsidePointsRefused ==
    \A b \in binned :
        OutsideRaster(b.p) => b.i = -1 /\ err = "ShouldntHappen"

\* C4 as claimed: no run that has read and binned points ends with
\* NoDriverForExtension.
C4_NoDriverBeforeComputation ==
    err = "NoDriverForExtension" => binned = {}

\* C5 as claimed: six numbers, or four, with min <= max on every axis give
\* Ok with exactly those corners (z unbounded for four); min > max gives an
\* error; no argument makes the parser panic.
C5_ParsesBothForms ==
    extent_out.some =>
        LET s == extent_in
            r == extent_out.val
            nums == \A k \in 1..Len(s) : s[k].ok
            min == IF Len(s) = 6 THEN <<s[1].val, s[2].val, s[3].val>>
                   ELSE <<s[1].val, s[2].val, F64_MIN>>
            max == IF Len(s) = 6 THEN <<s[4].val, s[5].val, s[6].val>>
                   ELSE <<s[3].val, s[4].val, F64_MAX>>
        IN  /\ r.kind # "Panic"
            /\ (nums /\ Len(s) \in {4, 6}) =>
                   IF \A i \in 1..3 : min[i] <= max[i]
                   THEN r = ExtOk(min, max)
                   ELSE r = ExtErr

====
